---- MODULE Spec2Model ----
(***************************************************************************)
(* Model of scripts/esm_migration/update_imports.py: the specifier         *)
(* resolver, the three-regex statement rewriter and the tree walker.       *)
(*                                                                         *)
(* Encoding of strings: a string is a sequence of atoms; an atom is ".",   *)
(* "/", or a word (a maximal run of characters other than '.', '/', quotes *)
(* and white space).  No two words are adjacent, so the encoding of a      *)
(* string is unique and endswith / split / rstrip / with_suffix can be     *)
(* computed atom by atom exactly as Python computes them char by char.     *)
(* A path is a sequence of component names (each name a string); the       *)
(* filesystem root is the empty path.  The modelled tree has no symbolic   *)
(* links, so Path.resolve() is the lexical normalisation of ".." parts.    *)
(***************************************************************************)
EXTENDS Integers, Sequences, FiniteSets, TLC

VARIABLES files, dirs, content, pc, run, queue, total_files, changed_files,
          stdout, calls, before, written

vars == <<files, dirs, content, pc, run, queue, total_files, changed_files,
          stdout, calls, before, written>>

(* ------------------------------ bounds -------------------------------- *)

MaxSpecLen == 5

MaxEntries == 3

MaxStmts == 2

MaxRuns == 2

(* --------------------------- string helpers --------------------------- *)

Range(s) == {s[i] : i \in 1..Len(s)}

EndsWith(s, suf) ==
    /\ Len(s) >= Len(suf)
    /\ SubSeq(s, Len(s) - Len(suf) + 1, Len(s)) = suf

StartsWith(s, pre) ==
    /\ Len(s) >= Len(pre)
    /\ SubSeq(s, 1, Len(pre)) = pre

RECURSIVE Split(_)
Split(s) ==
    IF "/" \notin Range(s) THEN <<s>>
    ELSE LET i == CHOOSE k \in 1..Len(s) :
                      s[k] = "/" /\ \A j \in 1..(k - 1) : s[j] # "/"
         IN <<SubSeq(s, 1, i - 1)>> \o Split(SubSeq(s, i + 1, Len(s)))

LastSegment(s) == Split(s)[Len(Split(s))]

RECURSIVE RStripSlash(_)
RStripSlash(s) ==
    IF s # <<>> /\ s[Len(s)] = "/" THEN RStripSlash(SubSeq(s, 1, Len(s) - 1))
    ELSE s

(* ----------------------------- constants ------------------------------ *)

TS_EXTENSIONS == << <<".", "ts">>, <<".", "tsx">>, <<".", "mts">> >>

JS_EXTENSIONS == << <<".", "js">>, <<".", "mjs">> >>

\* Fault: the plain script extensions are left out of the probe list.
ProbedExtensions_TsOnly == TS_EXTENSIONS

ProbedExtensions == TS_EXTENSIONS \o JS_EXTENSIONS

\* ROOT = Path(__file__).resolve().parents[2]; the repository is taken to be
\* checked out at the filesystem root, so ROOT is the empty path.
ROOT == <<>>

DIRECTORIES == << <<"server">>, <<"shared">>, <<"client">>, <<"test">>, <<"scripts">> >>

(* ------------------------------ pathlib ------------------------------- *)

Parent(path) == IF path = <<>> THEN <<>> ELSE SubSeq(path, 1, Len(path) - 1)

\* base_dir / spec : an absolute right operand replaces the left one; empty
\* and "." components are dropped when the path is parsed.
JoinPath(base_dir, spec) ==
    LET parts == SelectSeq(Split(spec), LAMBDA seg : seg # <<>> /\ seg # <<".">>)
    IN IF spec # <<>> /\ spec[1] = "/" THEN parts ELSE base_dir \o parts

\* Path.resolve() on a tree without symbolic links: ".." removes the
\* component before it, and the parent of the root is the root.
RECURSIVE ResolveFrom(_, _)
ResolveFrom(acc, rest) ==
    IF rest = <<>> THEN acc
    ELSE IF Head(rest) = <<".", ".">> THEN ResolveFrom(Parent(acc), Tail(rest))
    ELSE ResolveFrom(Append(acc, Head(rest)), Tail(rest))

ResolvePath(path) == ResolveFrom(<<>>, path)

\* PurePath.suffix: the part of the name from its last '.', unless that dot
\* is the first or the last character of the name.
Suffix(name) ==
    IF "." \notin Range(name) THEN <<>>
    ELSE LET i == CHOOSE k \in 1..Len(name) :
                      name[k] = "." /\ \A j \in (k + 1)..Len(name) : name[j] # "."
         IN IF 1 < i /\ i < Len(name) THEN SubSeq(name, i, Len(name)) ELSE <<>>

\* PurePath.with_suffix(ext) for a path that has a name: the old suffix is
\* replaced, or ext is appended when the name has no suffix.
WithSuffix(path, ext) ==
    LET name == path[Len(path)]
        stem == SubSeq(name, 1, Len(name) - Len(Suffix(name)))
    IN Append(Parent(path), stem \o ext)

(* ----------------------------- filesystem ----------------------------- *)

IsDir(p) ==
    \/ p = <<>>
    \/ p \in dirs
    \/ \E e \in files \cup dirs : Len(e) > Len(p) /\ SubSeq(e, 1, Len(p)) = p

IsFile(p) == p \in files

Exists(p) == IsFile(p) \/ IsDir(p)

(* ------------------------------ resolver ------------------------------ *)

NoChange == [kind |-> "none", spec |-> <<>>]

NewSpec(s) == [kind |-> "new", spec |-> s]

ValueError == [kind |-> "raise", spec |-> <<>>]

HasRuntimeExtension(spec) ==
    \/ EndsWith(spec, <<".", "js">>)
    \/ EndsWith(spec, <<".", "mjs">>)
    \/ EndsWith(spec, <<".", "cjs">>)

\* Fault: split("/")[0] instead of split("/")[-1].
HasDotInFirstSegment(spec) == "." \in Range(Split(spec)[1])

HasDotInLastSegment(spec) == "." \in Range(LastSegment(spec))

Target(file_path, spec) == ResolvePath(JoinPath(Parent(file_path), spec))

DirectMatch(target) ==
    \E i \in 1..Len(ProbedExtensions) : Exists(WithSuffix(target, ProbedExtensions[i]))

\* Fault: the index file is probed with the TypeScript extensions only.
IndexMatch_TsOnly(target) ==
    /\ IsDir(target)
    /\ \E i \in 1..Len(TS_EXTENSIONS) :
           Exists(Append(target, <<"index">> \o TS_EXTENSIONS[i]))

IndexMatch(target) ==
    /\ IsDir(target)
    /\ \E i \in 1..Len(ProbedExtensions) :
           Exists(Append(target, <<"index">> \o ProbedExtensions[i]))

\* Fault: the directory index is probed before the direct files.
resolve_index_first(file_path, spec) ==
    IF HasRuntimeExtension(spec) THEN NoChange
    ELSE IF HasDotInLastSegment(spec) THEN NoChange
    ELSE LET target == Target(file_path, spec)
         IN IF target = <<>> THEN ValueError
            ELSE IF IndexMatch(target)
                 THEN NewSpec(RStripSlash(spec) \o <<"/", "index", ".", "js">>)
            ELSE IF DirectMatch(target) THEN NewSpec(spec \o <<".", "js">>)
            ELSE NoChange

\* Fault: the two early returns for specifiers that carry an extension are
\* missing.
resolve_without_guards(file_path, spec) ==
    LET target == Target(file_path, spec)
    IN IF target = <<>> THEN ValueError
       ELSE IF DirectMatch(target) THEN NewSpec(spec \o <<".", "js">>)
       ELSE IF IndexMatch(target)
            THEN NewSpec(RStripSlash(spec) \o <<"/", "index", ".", "js">>)
       ELSE NoChange

resolve_relative_spec(file_path, spec) ==
    IF HasRuntimeExtension(spec) THEN NoChange
    ELSE IF HasDotInLastSegment(spec) THEN NoChange
    ELSE LET target == Target(file_path, spec)
         IN IF target = <<>> THEN ValueError
            ELSE IF DirectMatch(target) THEN NewSpec(spec \o <<".", "js">>)
            ELSE IF IndexMatch(target)
                 THEN NewSpec(RStripSlash(spec) \o <<"/", "index", ".", "js">>)
            ELSE NoChange

(* ------------------------------ rewriter ------------------------------ *)

\* Group 2 of the three patterns, (?:\.{1,2}|\/)[^"']* : any quote-free
\* string whose first character is '.' or '/'.
IsCaptured(s) == s # <<>> /\ s[1] \in {".", "/"}

\* A text is a sequence of tokens: "from" (the word and the white space
\* after it), "import(" (with optional white space after it), "export" (the
\* word and the white space after it), "q" (a quote), ";" , "other" (any
\* other quote-free text) and "str" (the text between two quotes, field s).
Tok(t) == [t |-> t, s |-> <<>>]

Str(s) == [t |-> "str", s |-> s]

\* (prefix["'])((?:\.{1,2}|\/)[^"']*)(["'"]) with the prefix token at i:
\* the index of the captured specifier, or 0.
QuotedSpecAfter(text, i) ==
    IF /\ i + 3 <= Len(text)
       /\ text[i + 1].t = "q"
       /\ text[i + 2].t = "str" /\ IsCaptured(text[i + 2].s)
       /\ text[i + 3].t = "q"
    THEN i + 2 ELSE 0

STATIC_IMPORT_RE(text, i) ==
    IF text[i].t = "from" THEN QuotedSpecAfter(text, i) ELSE 0

\* Fault: the dynamic pattern is a copy of the static one.
DYNAMIC_IMPORT_RE_AsStatic(text, i) == STATIC_IMPORT_RE(text, i)

DYNAMIC_IMPORT_RE(text, i) ==
    IF text[i].t = "import(" THEN QuotedSpecAfter(text, i) ELSE 0

\* export\s+[^;]*?from\s+["'] ... : from the "export" token at i, the
\* nearest later "from" clause not separated from it by a semicolon.
EXPORT_FROM_RE(text, i) ==
    LET J == {j \in (i + 1)..Len(text) :
                 /\ STATIC_IMPORT_RE(text, j) # 0
                 /\ \A k \in (i + 1)..(j - 1) : text[k].t # ";"}
    IN IF text[i].t = "export" /\ J # {}
       THEN (CHOOSE j \in J : \A k \in J : j <= k) + 2
       ELSE 0

REGEXES == <<"STATIC_IMPORT_RE", "DYNAMIC_IMPORT_RE", "EXPORT_FROM_RE">>

MatchAt(regex, text, i) ==
    CASE regex = "STATIC_IMPORT_RE" -> STATIC_IMPORT_RE(text, i)
      [] regex = "DYNAMIC_IMPORT_RE" -> DYNAMIC_IMPORT_RE(text, i)
      [] regex = "EXPORT_FROM_RE" -> EXPORT_FROM_RE(text, i)

\* regex.sub scans left to right for non-overlapping matches: the indexes
\* of the captured specifiers, in order.
RECURSIVE FindAll(_, _, _)
FindAll(regex, text, i) ==
    IF i > Len(text) THEN <<>>
    ELSE IF MatchAt(regex, text, i) = 0 THEN FindAll(regex, text, i + 1)
    ELSE <<MatchAt(regex, text, i)>> \o FindAll(regex, text, MatchAt(regex, text, i) + 2)

\* Fault: the changed flag is set for every match, rewritten or not.
Replace_AlwaysChanged(regex, file_path, st, i) ==
    LET spec == st.content[i].s
        new_spec == resolve_relative_spec(file_path, spec)
        rewrite == new_spec.kind = "new" /\ new_spec.spec # <<>> /\ new_spec.spec # spec
    IN [content |-> IF rewrite THEN [st.content EXCEPT ![i].s = new_spec.spec]
                    ELSE st.content,
        changed |-> TRUE,
        calls   |-> Append(st.calls, [regex |-> regex, idx |-> i, file |-> file_path,
                                      spec |-> spec, result |-> new_spec]),
        raised  |-> new_spec.kind = "raise"]

\* _replace on one match; st carries the text, the changed flag, the log of
\* resolver calls and whether an exception has escaped.
Replace(regex, file_path, st, i) ==
    LET spec == st.content[i].s
        new_spec == resolve_relative_spec(file_path, spec)
        rewrite == new_spec.kind = "new" /\ new_spec.spec # <<>> /\ new_spec.spec # spec
    IN [content |-> IF rewrite THEN [st.content EXCEPT ![i].s = new_spec.spec]
                    ELSE st.content,
        changed |-> st.changed \/ rewrite,
        calls   |-> Append(st.calls, [regex |-> regex, idx |-> i, file |-> file_path,
                                      spec |-> spec, result |-> new_spec]),
        raised  |-> new_spec.kind = "raise"]

RECURSIVE SubMatches(_, _, _, _)
SubMatches(regex, file_path, st, idxs) ==
    IF idxs = <<>> \/ st.raised THEN st
    ELSE SubMatches(regex, file_path, Replace(regex, file_path, st, Head(idxs)), Tail(idxs))

Sub(regex, file_path, st) ==
    IF st.raised THEN st
    ELSE SubMatches(regex, file_path, st, FindAll(regex, st.content, 1))

RECURSIVE SubAll(_, _, _)
SubAll(k, file_path, st) ==
    IF k > Len(REGEXES) THEN st
    ELSE SubAll(k + 1, file_path, Sub(REGEXES[k], file_path, st))

update_specifiers(text, file_path) ==
    SubAll(1, file_path,
           [content |-> text, changed |-> FALSE, calls |-> <<>>, raised |-> FALSE])

(* ----------------------------- tree walker ---------------------------- *)

Under(p, d) == Len(p) > Len(d) /\ SubSeq(p, 1, Len(d)) = d

\* Every path of the tree: the entries and the directories above them.
AllPaths ==
    UNION {{SubSeq(e, 1, n) : n \in 1..Len(e)} : e \in files \cup dirs}

\* dir_path.rglob("*.ts"): every path below dir_path whose name ends in .ts.
Rglob(dir_path) ==
    {p \in AllPaths : Exists(p) /\ Under(p, dir_path) /\ EndsWith(p[Len(p)], <<".", "ts">>)}

DirPath(k) == ROOT \o <<DIRECTORIES[k]>>

Scanned ==
    UNION {IF Exists(DirPath(k)) THEN Rglob(DirPath(k)) ELSE {} : k \in 1..Len(DIRECTORIES)}

DirIndex(p) == CHOOSE k \in 1..Len(DIRECTORIES) : Under(p, DirPath(k))

\* The statements the texts of the tree are made of.
TextSpecs ==
    { <<".", "/", "a">>,
      <<"a">>,
      <<".", "a", "/", "a">> }

Shapes == {"static", "dynamic", "export", "export;"}

Statement(shape, spec) ==
    LET quoted == <<Tok("q"), Str(spec), Tok("q")>>
    IN CASE shape = "static"  -> <<Tok("from")>> \o quoted
         [] shape = "dynamic" -> <<Tok("import(")>> \o quoted
         [] shape = "export"  -> <<Tok("export"), Tok("other"), Tok("from")>> \o quoted
         [] shape = "export;" -> <<Tok("export"), Tok(";"), Tok("from")>> \o quoted

StaticStatements == {Statement("static", sp) : sp \in TextSpecs \cup {<<"/">>}}

Statements ==
    {Statement(sh, sp) : sh \in Shapes \ {"export;"}, sp \in TextSpecs}
        \cup {Statement("export;", <<".", "/", "a">>)}
        \cup StaticStatements

RECURSIVE Flatten(_)
Flatten(ss) == IF ss = <<>> THEN <<>> ELSE Head(ss) \o Flatten(Tail(ss))

server == <<"server">>

shared == <<"shared">>

FooTs == <<"foo", ".", "ts">>

ServerFoo == <<server, FooTs>>

SharedFoo == <<shared, FooTs>>

TreeUniverse ==
    { ServerFoo,
      SharedFoo,
      <<server, <<"a", ".", "ts">>>>,
      <<server, <<".", "a">>, <<"a", ".", "mjs">>>>,
      <<shared, <<"a">>, <<"index", ".", "js">>>> }

Init ==
    /\ files \in SUBSET TreeUniverse
    /\ dirs = {}
    /\ \E n1 \in 0..MaxStmts :
         \E n2 \in 0..(MaxStmts - n1) :
           \E s1 \in [1..n1 -> Statements], s2 \in [1..n2 -> StaticStatements] :
             /\ ServerFoo \notin files => n1 = 0
             /\ SharedFoo \notin files => n2 = 0
             /\ content = [p \in files |->
                              IF p = ServerFoo THEN Flatten(s1)
                              ELSE IF p = SharedFoo THEN Flatten(s2)
                              ELSE <<>>]
    /\ pc = "idle"
    /\ run = 0
    /\ queue = {}
    /\ total_files = 0
    /\ changed_files = 0
    /\ stdout = <<>>
    /\ calls = <<>>
    /\ before = content
    /\ written = {}

\* main(), lines 77-85: the counters are reset and the walk begins.
MainStart ==
    /\ pc \in {"idle", "done", "crashed"}
    /\ run < MaxRuns
    /\ run' = run + 1
    /\ pc' = "walking"
    /\ queue' = Scanned
    /\ total_files' = 0
    /\ changed_files' = 0
    /\ calls' = <<>>
    /\ before' = content
    /\ written' = {}
    /\ UNCHANGED <<files, dirs, content, stdout>>

\* One iteration of the loop of main(): process_file(path) and the counters.
\* An exception (a directory named *.ts, or ValueError from the resolver)
\* leaves the file as it was and ends the run.
ProcessFile ==
    /\ pc = "walking"
    /\ \E path \in queue :
         /\ \A q \in queue : DirIndex(path) <= DirIndex(q)
         /\ LET res == IF IsFile(path) THEN update_specifiers(content[path], path)
                       ELSE [content |-> <<>>, changed |-> FALSE, calls |-> <<>>,
                             raised |-> TRUE]
            IN /\ calls' = res.calls
               /\ IF res.raised
                  THEN /\ pc' = "crashed"
                       /\ UNCHANGED <<content, written, changed_files, total_files, queue>>
                  ELSE /\ pc' = pc
                       /\ queue' = queue \ {path}
                       /\ content' = IF res.changed
                                     THEN [content EXCEPT ![path] = res.content]
                                     ELSE content
                       /\ written' = IF res.changed THEN written \cup {path} ELSE written
                       /\ changed_files' = IF res.changed THEN changed_files + 1
                                           ELSE changed_files
                       /\ total_files' = total_files + 1
    /\ UNCHANGED <<files, dirs, run, stdout, before>>

\* main(), line 90: the summary line.
MainFinish ==
    /\ pc = "walking"
    /\ queue = {}
    /\ pc' = "done"
    /\ stdout' = Append(stdout, [total |-> total_files, changed |-> changed_files])
    /\ UNCHANGED <<files, dirs, content, run, queue, total_files, changed_files,
                   calls, before, written>>

Next == MainStart \/ ProcessFile \/ MainFinish

Spec == Init /\ [][Next]_vars

(* ------------------------- resolver, in isolation --------------------- *)

\* Atoms the captured specifiers are built from.
SpecAlphabet == {".", "/", "a", "js"}

IsWord(c) == c # "." /\ c # "/"

WellFormed(s) == \A i \in 1..(Len(s) - 1) : ~(IsWord(s[i]) /\ IsWord(s[i + 1]))

CapturedSpecs ==
    {s \in UNION {[1..n -> SpecAlphabet] : n \in 1..MaxSpecLen} :
        IsCaptured(s) /\ WellFormed(s)}

FilePaths == { <<server, FooTs>>, <<server, <<"a">>, FooTs>> }

FileUniverse ==
    { <<server, <<"a", ".", "ts">>>>,
      <<server, <<"a", ".", "mjs">>>>,
      <<server, <<"a">>, <<"index", ".", "ts">>>>,
      <<server, <<"index", ".", "js">>>>,
      << <<"a", ".", "ts">> >>,
      << <<"a", ".", "a", ".", "ts">> >>,
      << <<"a", ".", "a">>, <<"index", ".", "ts">> >>,
      << <<"index", ".", "ts">> >>,
      << <<"server", ".", "tsx">> >> }

DirUniverse ==
    { <<server, <<"a">>>>,
      << <<"a", ".", "tsx">> >> }

\* A tree: no entry lies under a regular file.
ConsistentTree(fs, ds) ==
    /\ fs \cap ds = {}
    /\ \A f \in fs : \A e \in fs \cup ds :
           ~(Len(e) > Len(f) /\ SubSeq(e, 1, Len(f)) = f)

InitResolver ==
    /\ files \in SUBSET FileUniverse
    /\ dirs \in SUBSET DirUniverse
    /\ Cardinality(files) + Cardinality(dirs) <= MaxEntries
    /\ ConsistentTree(files, dirs)
    /\ content = <<>>
    /\ pc = "resolver"
    /\ run = 0
    /\ queue = {}
    /\ total_files = 0
    /\ changed_files = 0
    /\ stdout = <<>>
    /\ calls = <<>>
    /\ before = <<>>
    /\ written = {}

ResolveCall ==
    /\ pc = "resolver"
    /\ \E f \in FilePaths, s \in CapturedSpecs :
           calls' = << [regex |-> "none", idx |-> 0, file |-> f, spec |-> s,
                        result |-> resolve_relative_spec(f, s)] >>
    /\ pc' = "returned"
    /\ UNCHANGED <<files, dirs, content, run, queue, total_files,
                   changed_files, stdout, before, written>>

NextResolver == ResolveCall

SpecResolver == InitResolver /\ [][NextResolver]_vars

(* ======================= properties of the resolver =================== *)

Calls == {calls[i] : i \in 1..Len(calls)}

\* A relative specifier begins with "./", "../" or "/".
IsRelative(spec) ==
    \/ StartsWith(spec, <<".", "/">>)
    \/ StartsWith(spec, <<".", ".", "/">>)
    \/ StartsWith(spec, <<"/">>)

Extensions == { <<".", "ts">>, <<".", "tsx">>, <<".", "mts">>, <<".", "js">>, <<".", "mjs">> }

DotInLastSegment(spec) ==
    \E i \in 1..Len(spec) : spec[i] = "." /\ \A j \in (i + 1)..Len(spec) : spec[j] # "/"

\* The path p the specifier of call c resolves to.
PathOf(c) == Target(c.file, c.spec)

\* p.<ext> exists, for a path p that has a name.
DirectExists(c) ==
    LET p == PathOf(c)
    IN /\ p # <<>>
       /\ \E ext \in Extensions : Exists(Append(Parent(p), p[Len(p)] \o ext))

\* p is a directory that contains index.<ext>.
IndexExists(c) ==
    LET p == PathOf(c)
    IN IsDir(p) /\ \E ext \in Extensions : Exists(Append(p, <<"index">> \o ext))

\* Neither the last segment of the specifier nor the name of the path it
\* resolves to carries a '.', and that path is not the root.
ExtensionLess(c) ==
    /\ ~DotInLastSegment(c.spec)
    /\ PathOf(c) # <<>>
    /\ "." \notin Range(PathOf(c)[Len(PathOf(c))])

DotJs(spec) == [kind |-> "new", spec |-> spec \o <<".", "js">>]

SlashIndexJs(spec) == [kind |-> "new", spec |-> RStripSlash(spec) \o <<"/", "index", ".", "js">>]

C2_Claim ==
    \A c \in Calls :
        (IsRelative(c.spec) /\ ~DotInLastSegment(c.spec)
            /\ ~DirectExists(c) /\ IndexExists(c))
            => c.result = SlashIndexJs(c.spec)

\* C4 as stated: the resolver raises no error, it returns a new specifier
\* or "no change" for every specifier the patterns can capture.
C4_Claim ==
    \A c \in Calls : c.result.kind \in {"none", "new"}

\* C6: a specifier whose last segment contains a '.' is left unchanged,
\* whatever exists on disk.
C6_DottedUnchanged ==
    \A c \in Calls : DotInLastSegment(c.spec) => c.result = NoChange

\* The resolver has answered "no change" for a dotted specifier although
\* p.<ext> exists.
C6_Witness ==
    \E c \in Calls :
        /\ c.spec = <<"/", "a", ".", "a">>
        /\ IsRelative(c.spec) /\ DotInLastSegment(c.spec)
        /\ DirectExists(c)
        /\ c.result = NoChange

Changed == {p \in DOMAIN content : content[p] # before[p]}

\* The number of runs that printed their summary before the current one began.
CompletedBefore == IF pc = "done" THEN Len(stdout) - 1 ELSE Len(stdout)

C5_Claim ==
    /\ \A c \in Calls : IsRelative(c.spec)
    /\ \A p \in DOMAIN content : \A i \in DOMAIN before[p] :
           (before[p][i].t = "str" /\ ~IsRelative(before[p][i].s))
               => content[p][i] = before[p][i]

\* C8 as stated: during one call of update_specifiers no occurrence of a
\* relative specifier is passed to the resolver twice.
C8_Original ==
    \A i \in 1..Len(calls) : \A j \in 1..Len(calls) :
        (i # j /\ IsRelative(calls[i].spec)) => calls[i].idx # calls[j].idx

\* C8 amended: during one call of update_specifiers no specifier occurrence
\* is rewritten twice. An occurrence is passed to the resolver a second time
\* only when the export-from pattern matches a from clause the static
\* pattern has matched already, and that second call returns "no change".
C8_NoSecondRewrite ==
    \A i \in 1..Len(calls) : \A j \in 1..Len(calls) :
        (i < j /\ calls[i].idx = calls[j].idx)
            => /\ calls[i].regex = "STATIC_IMPORT_RE"
               /\ calls[j].regex = "EXPORT_FROM_RE"
               /\ calls[j].result = NoChange

\* An export ... from occurrence was rewritten by the static pattern and
\* then offered to the resolver again by the export-from pattern.
C8_Witness ==
    \E i \in 1..Len(calls) : \E j \in 1..Len(calls) :
        /\ i < j /\ calls[i].idx = calls[j].idx
        /\ calls[i].result.kind = "new"
        /\ calls[j].spec = calls[i].result.spec

\* C10: update_specifiers returns changed = TRUE exactly when the text it
\* returns differs from the text it was given, a file is written exactly
\* when its rewritten text differs from its original text, each scanned
\* file is counted once, and the summary line
\* reports the number of scanned files and the number of files whose text
\* on disk differs from its text before the run.
C10_Counts ==
    /\ \A p \in (IF pc = "idle" THEN Scanned ELSE queue) :
           IsFile(p) =>
               LET res == update_specifiers(content[p], p)
               IN ~res.raised => (res.changed <=> res.content # content[p])
    /\ written = Changed
    /\ written \subseteq Scanned
    /\ changed_files = Cardinality(written)
    /\ changed_files <= total_files
    /\ pc \in {"walking", "crashed"}
           => /\ queue \subseteq Scanned
              /\ total_files = Cardinality(Scanned \ queue)
    /\ pc = "done"
           => stdout[Len(stdout)] = [total |-> Cardinality(Scanned),
                                     changed |-> Cardinality(Changed)]

\* A run has finished having rewritten two of the three files it scanned.
C10_Witness ==
    /\ pc = "done"
    /\ stdout[Len(stdout)] = [total |-> 3, changed |-> 2]
    /\ Cardinality(Changed) = 2

====
